---------------------------- MODULE Spec2Model ----------------------------
(***************************************************************************)
(* A model of the OneWire controller client (src/onewire.py): the session  *)
(* (connect / disconnect / _send_command / _read_reply), the response      *)
(* framer of get_data and the XML document decoder.                        *)
(*                                                                         *)
(* Byte strings are sequences of tokens.  A token is a run of bytes that   *)
(* no operation of the client looks inside; every place where the client   *)
(* splits or searches ("\r\n", " ", "?>\r\n", the closing tag) is a token  *)
(* boundary, and the closing tag is two tokens so that a chunk boundary    *)
(* can fall inside it.  The digits of the status code are tokens of their  *)
(* own.  An XML element is one token, looked up in ElemOf.                 *)
(***************************************************************************)
EXTENDS Naturals, Integers, Sequences, FiniteSets, TLC

(***************************************************************************)
(* Bounds of the model.                                                    *)
(***************************************************************************)
\* sockets one session may create in a run
MaxSockets == 2
\* elements under the root of a document handed to the decoder
MaxElems == 2
\* the recv counter of one operation saturates here
MaxRecv == 2
\* a recv delivers at most this many tokens, or all the peer has left
MaxChunk == 5

None == 0

(***************************************************************************)
(* Tokens.                                                                 *)
(***************************************************************************)
SP == " "
CRLF == "\\r\\n"
PI_END == "?>"
XML_DECL == "<?xml version=1.0"
ROOT_OPEN == "<Devices-Detail-Response>"
CLOSE_1 == "</Devices-Detail-"
CLOSE_2 == "Response>"
NON_ASCII == "\\xff"
Digits == {"0", "2", "4"}
DigitVal == ("0" :> 0) @@ ("2" :> 2) @@ ("4" :> 4)

\* src/onewire.py:238  b'</Devices-Detail-Response>'
Terminator == <<CLOSE_1, CLOSE_2>>
\* src/onewire.py:244  "?>\r\n"
PrologEnd == <<PI_END, CRLF>>

(***************************************************************************)
(* Sequence helpers: bytes.find, "in", str.split.                          *)
(***************************************************************************)
Min(a, b) == IF a < b THEN a ELSE b

IsAt(seq, pat, i) ==
    /\ i + Len(pat) - 1 <= Len(seq)
    /\ \A j \in 1..Len(pat) : seq[i + j - 1] = pat[j]

\* index of the first occurrence of pat in seq, 0 when there is none
Find(seq, pat) ==
    LET hits == {i \in 1..Len(seq) : IsAt(seq, pat, i)}
    IN  IF hits = {} THEN 0 ELSE CHOOSE i \in hits : \A j \in hits : i <= j

Contains(seq, pat) == Find(seq, pat) # 0

RECURSIVE Split(_, _)
Split(seq, pat) ==
    LET i == Find(seq, pat)
    IN  IF i = 0 THEN <<seq>>
        ELSE <<SubSeq(seq, 1, i - 1)>>
                 \o Split(SubSeq(seq, i + Len(pat), Len(seq)), pat)

\* bytes.decode("ascii") succeeds
Ascii(seq) == \A i \in 1..Len(seq) : seq[i] # NON_ASCII

\* int() of a run of status-line tokens: <<>> is the error
RECURSIVE DigitsValue(_)
DigitsValue(f) ==
    IF f = <<>> THEN 0
    ELSE 10 * DigitsValue(SubSeq(f, 1, Len(f) - 1)) + DigitVal[f[Len(f)]]

IsNumber(f) == f # <<>> /\ \A i \in 1..Len(f) : f[i] \in Digits

(***************************************************************************)
(* __http_response_handler on the first line of the first chunk.           *)
(* Returns "ok" or the exception raised.                                   *)
(***************************************************************************)
OK_CODE == 200

__http_response_handler(line) ==
    LET fields == Split(line, <<SP>>)
    IN  IF Len(fields) < 2 THEN "IndexError"
        ELSE IF ~IsNumber(fields[2]) THEN "ValueError"
        ELSE IF DigitsValue(fields[2]) # OK_CODE THEN "HttpResponseError"
        ELSE "ok"

\* response.decode("ascii").split("\r\n")[0]
StatusLine(response) == Split(response, <<CRLF>>)[1]


(***************************************************************************)
(* The reading model: ONEWIREDATA, EDS0065DATA, EDS0068DATA.               *)
(* An optional field is <<>> (None) or <<v>>.  A float is kept in tenths.  *)
(* A string value is the element text, a sequence of words.                *)
(***************************************************************************)
CommonSensorFields ==
    {"rom_id", "device_type", "health", "channel", "raw_data",
     "relative_humidity", "temperature", "humidity", "dew_point",
     "humidex", "heat_index", "version"}

EDS0065Fields == CommonSensorFields

EDS0068Fields ==
    CommonSensorFields \cup {"pressure_mb", "pressure_hg", "illuminance"}

BusFields ==
    {"poll_count", "total_devices", "loop_time",
     "ch1_connected", "ch2_connected", "ch3_connected",
     "ch1_error", "ch2_error", "ch3_error",
     "ch1_voltage", "ch2_voltage", "ch3_voltage", "voltage_power",
     "device_name", "hostname", "mac_address", "datetime"}

EDS0065DATA == [f \in EDS0065Fields |-> <<>>]

EDS0068DATA == [f \in EDS0068Fields |-> <<>>]

\* a fresh ONEWIREDATA(): every field None, both sensor lists empty
ONEWIREDATA ==
    [f \in BusFields \cup {"eds0065_data", "eds0068_data"} |-> <<>>]

\* ONEWIREDATA.read_sensors: Family A first, then Family B
read_sensors(d) == d["eds0065_data"] \o d["eds0068_data"]

(***************************************************************************)
(* Element texts and the coercions int(), float(), str().                  *)
(* A text is <<>> (element.text is None) or its words, split on " ".       *)
(***************************************************************************)
NoText == <<>>

IntTable == ("0" :> 0) @@ ("1" :> 1) @@ ("5" :> 5) @@ ("7" :> 7)

FloatTable ==
    ("0" :> 0) @@ ("1" :> 10) @@ ("5" :> 50) @@ ("7" :> 70)
        @@ ("0.5" :> 5) @@ ("21.5" :> 215) @@ ("42.5" :> 425)

Value(v) == [err |-> "none", v |-> <<v>>]

Raise(e) == [err |-> e, v |-> <<>>]

\* int() and float() ignore surrounding white space
RECURSIVE Strip(_)
Strip(words) ==
    IF words = <<>> THEN <<>>
    ELSE IF Head(words) = "" THEN Strip(Tail(words))
    ELSE IF words[Len(words)] = "" THEN Strip(SubSeq(words, 1, Len(words) - 1))
    ELSE words

Coerce(table, text) ==
    IF text = NoText THEN Raise("TypeError")
    ELSE LET w == Strip(text)
         IN  IF Len(w) = 1 /\ w[1] \in DOMAIN table THEN Value(table[w[1]])
             ELSE Raise("ValueError")

int(text) == Coerce(IntTable, text)

float(text) == Coerce(FloatTable, text)

str(text) == IF text = NoText THEN Value(<<"None">>) ELSE Value(text)

\* float(sensor.text): the text as a whole
PrimaryValue_whole(text) ==
    IF text = NoText THEN Raise("TypeError")
    ELSE IF Len(Strip(text)) = 1 THEN float(text) ELSE Raise("ValueError")

\* float(sensor.text.split(" ")[0])
PrimaryValue(text) ==
    IF text = NoText THEN Raise("AttributeError") ELSE float(<<text[1]>>)

(***************************************************************************)
(* The tag dispatch tables of __device_data_handler and                    *)
(* __sensor_data_handler: tag -> <<field, coercion>>.                      *)
(***************************************************************************)
DeviceTags ==
    ("PollCount" :> <<"poll_count", "int">>)
    @@ ("DevicesConnected" :> <<"total_devices", "int">>)
    @@ ("LoopTime" :> <<"loop_time", "float">>)
    @@ ("DevicesConnectedChannel1" :> <<"ch1_connected", "int">>)
    @@ ("DevicesConnectedChannel2" :> <<"ch2_connected", "int">>)
    @@ ("DevicesConnectedChannel3" :> <<"ch3_connected", "int">>)
    @@ ("DataErrorsChannel1" :> <<"ch1_error", "int">>)
    @@ ("DataErrorsChannel2" :> <<"ch2_error", "int">>)
    @@ ("DataErrorsChannel3" :> <<"ch3_error", "int">>)
    @@ ("VoltageChannel1" :> <<"ch1_voltage", "float">>)
    @@ ("VoltageChannel2" :> <<"ch2_voltage", "float">>)
    @@ ("VoltageChannel3" :> <<"ch3_voltage", "float">>)
    @@ ("VoltagePower" :> <<"voltage_power", "float">>)
    @@ ("DeviceName" :> <<"device_name", "str">>)
    @@ ("HostName" :> <<"hostname", "str">>)
    @@ ("MACAddress" :> <<"mac_address", "str">>)
    @@ ("DateTime" :> <<"datetime", "str">>)

CommonSensorTags ==
    ("ROMId" :> <<"rom_id", "str">>)
    @@ ("Name" :> <<"device_type", "str">>)
    @@ ("Health" :> <<"health", "int">>)
    @@ ("Channel" :> <<"channel", "int">>)
    @@ ("RawData" :> <<"raw_data", "str">>)
    @@ ("PrimaryValue" :> <<"relative_humidity", "first">>)
    @@ ("Temperature" :> <<"temperature", "float">>)
    @@ ("Humidity" :> <<"humidity", "float">>)
    @@ ("DewPoint" :> <<"dew_point", "float">>)
    @@ ("Humidex" :> <<"humidex", "float">>)
    @@ ("HeatIndex" :> <<"heat_index", "float">>)
    @@ ("Version" :> <<"version", "float">>)

EDS0065Tags == CommonSensorTags

EDS0068Tags ==
    CommonSensorTags
    @@ ("BarometricPressureMb" :> <<"pressure_mb", "float">>)
    @@ ("BarometricPressureHg" :> <<"pressure_hg", "float">>)
    @@ ("Light" :> <<"illuminance", "int">>)

\* the names some branch of the two handlers tests for
RecognizedNames ==
    DOMAIN DeviceTags \cup {"owd_EDS0065", "owd_EDS0068"}
        \cup DOMAIN EDS0065Tags \cup DOMAIN EDS0068Tags

Convert(kind, text) ==
    CASE kind = "int" -> int(text)
      [] kind = "float" -> float(text)
      [] kind = "first" -> PrimaryValue(text)
      [] OTHER -> str(text)

(***************************************************************************)
(* __sensor_data_handler: the immediate children of the container, in      *)
(* order, assigned into a new record; the record is appended after the     *)
(* loop, so a coercion that raises appends nothing.                        *)
(* Returns [err, data].                                                    *)
(***************************************************************************)
RECURSIVE SensorLoop(_, _, _, _)
SensorLoop(rec, tags, kids, i) ==
    IF i > Len(kids) THEN [err |-> "none", rec |-> rec]
    ELSE LET tag == kids[i].tag
         IN  IF tag \notin DOMAIN tags
             THEN SensorLoop(rec, tags, kids, i + 1)
             ELSE LET c == Convert(tags[tag][2], kids[i].text)
                  IN  IF c.err # "none" THEN [err |-> c.err, rec |-> rec]
                      ELSE SensorLoop([rec EXCEPT ![tags[tag][1]] = c.v],
                                      tags, kids, i + 1)

\* a handler that puts the new record in front of the list
__sensor_data_handler_prepend(data, element, sensor_type) ==
    LET is65 == sensor_type = "EDS0065"
        r == SensorLoop(IF is65 THEN EDS0065DATA ELSE EDS0068DATA,
                        IF is65 THEN EDS0065Tags ELSE EDS0068Tags,
                        element.kids, 1)
        list == IF is65 THEN "eds0065_data" ELSE "eds0068_data"
    IN  IF r.err # "none" THEN [err |-> r.err, data |-> data]
        ELSE [err |-> "none",
              data |-> [data EXCEPT ![list] = <<r.rec>> \o @]]

__sensor_data_handler(data, element, sensor_type) ==
    LET is65 == sensor_type = "EDS0065"
        r == SensorLoop(IF is65 THEN EDS0065DATA ELSE EDS0068DATA,
                        IF is65 THEN EDS0065Tags ELSE EDS0068Tags,
                        element.kids, 1)
        list == IF is65 THEN "eds0065_data" ELSE "eds0068_data"
    IN  IF r.err # "none" THEN [err |-> r.err, data |-> data]
        ELSE [err |-> "none",
              data |-> [data EXCEPT ![list] = Append(@, r.rec)]]

(***************************************************************************)
(* __device_data_handler: one element of the walk.                         *)
(***************************************************************************)
\* a handler that rejects the tags it has no branch for
__device_data_handler_strict(data, element) ==
    IF element.tag \in DOMAIN DeviceTags
    THEN LET c == Convert(DeviceTags[element.tag][2], element.text)
         IN  IF c.err # "none" THEN [err |-> c.err, data |-> data]
             ELSE [err |-> "none",
                   data |-> [data EXCEPT ![DeviceTags[element.tag][1]] = c.v]]
    ELSE IF element.tag = "owd_EDS0065"
    THEN __sensor_data_handler(data, element, "EDS0065")
    ELSE IF element.tag = "owd_EDS0068"
    THEN __sensor_data_handler(data, element, "EDS0068")
    ELSE IF element.tag \in RecognizedNames \cup {"Devices-Detail-Response"}
    THEN [err |-> "none", data |-> data]
    ELSE [err |-> "KeyError", data |-> data]

__device_data_handler(data, element) ==
    IF element.tag \in DOMAIN DeviceTags
    THEN LET c == Convert(DeviceTags[element.tag][2], element.text)
         IN  IF c.err # "none" THEN [err |-> c.err, data |-> data]
             ELSE [err |-> "none",
                   data |-> [data EXCEPT ![DeviceTags[element.tag][1]] = c.v]]
    ELSE IF element.tag = "owd_EDS0065"
    THEN __sensor_data_handler(data, element, "EDS0065")
    ELSE IF element.tag = "owd_EDS0068"
    THEN __sensor_data_handler(data, element, "EDS0068")
    ELSE [err |-> "none", data |-> data]

(***************************************************************************)
(* XML elements.  ns says whether the parsed tag is "{uri}LocalName".      *)
(***************************************************************************)
Leaf(tag, text) == [tag |-> tag, ns |-> TRUE, text |-> text, kids |-> <<>>]

Node(tag, kids) == [tag |-> tag, ns |-> TRUE, text |-> NoText, kids |-> kids]

Sensor65 ==
    Node("owd_EDS0065",
         << Leaf("ROMId", <<"A1">>), Leaf("Health", <<"7">>),
            Leaf("PrimaryValue", <<"42.5", "%RH">>),
            Leaf("Temperature", <<"21.5">>) >>)

Sensor68 ==
    Node("owd_EDS0068",
         << Leaf("ROMId", <<"B1">>), Leaf("Temperature", <<"21.5">>),
            Leaf("BarometricPressureMb", <<"42.5">>),
            Leaf("Light", <<"5">>) >>)

\* a Family B block that reports the three quantities get_atomic_value serves
Sensor68Wet ==
    Node("owd_EDS0068",
         << Leaf("ROMId", <<"B2">>), Leaf("Temperature", <<"0.5">>),
            Leaf("Humidity", <<"42.5">>), Leaf("DewPoint", <<"7">>) >>)

BadSensor65 ==
    Node("owd_EDS0065",
         << Leaf("ROMId", <<"A2">>), Leaf("Health", <<"abc">>) >>)

\* a block with a child no table names
Sensor65Extra ==
    Node("owd_EDS0065",
         << Leaf("ROMId", <<"A3">>), Leaf("FutureChild", <<"1">>),
            Leaf("Temperature", <<"21.5">>) >>)

\* an element no table names, around one that __device_data_handler names
FutureGroup == Node("FutureGroup", << Leaf("PollCount", <<"7">>) >>)

\* a block below an element no table names
FutureBlock == Node("FutureGroup", << Sensor68 >>)

\* an element that carries no namespace: its tag has no "}"
Plain == [Leaf("Plain", <<"1">>) EXCEPT !.ns = FALSE]

\* a block whose only child is a PrimaryValue with the given text
SensorPV(tag, text) == Node(tag, << Leaf("PrimaryValue", text) >>)

PVElemOf ==
    ("<owd_EDS0065>PV=42.5 %RH" :> SensorPV("owd_EDS0065", <<"42.5", "%RH">>))
    @@ ("<owd_EDS0065>PV=42.5" :> SensorPV("owd_EDS0065", <<"42.5">>))
    @@ ("<owd_EDS0065>PV= 42.5 %RH"
            :> SensorPV("owd_EDS0065", <<"", "42.5", "%RH">>))
    @@ ("<owd_EDS0065>PV=%RH" :> SensorPV("owd_EDS0065", <<"%RH">>))
    @@ ("<owd_EDS0065>PV" :> SensorPV("owd_EDS0065", NoText))
    @@ ("<owd_EDS0068>PV=0.5 %RH" :> SensorPV("owd_EDS0068", <<"0.5", "%RH">>))
    @@ ("<owd_EDS0068>PV" :> SensorPV("owd_EDS0068", NoText))

\* element tokens of the documents the peer serves
ElemOf ==
    ("<PollCount>5" :> Leaf("PollCount", <<"5">>))
    @@ ("<PollCount>7" :> Leaf("PollCount", <<"7">>))
    @@ ("<LoopTime>0.5" :> Leaf("LoopTime", <<"0.5">>))
    @@ ("<DeviceName>OW" :> Leaf("DeviceName", <<"OW">>))
    @@ ("<DevicesConnected>abc" :> Leaf("DevicesConnected", <<"abc">>))
    @@ ("<FutureField>1" :> Leaf("FutureField", <<"1">>))
    @@ ("<owd_EDS0065>A1" :> Sensor65)
    @@ ("<owd_EDS0065>A2" :> BadSensor65)
    @@ ("<owd_EDS0068>B1" :> Sensor68)
    @@ ("<owd_EDS0065>A3" :> Sensor65Extra)
    @@ ("<owd_EDS0068>B2" :> Sensor68Wet)
    @@ ("<FutureGroup><PollCount>7" :> FutureGroup)
    @@ ("<FutureGroup><owd_EDS0068>B1" :> FutureBlock)
    @@ ("<Plain xmlns=>1" :> Plain)
    @@ PVElemOf

(***************************************************************************)
(* ET.fromstring on the payload: the root's open tag, element tokens, the  *)
(* closing tag, then white space only.  <<>> when the text is no document. *)
(***************************************************************************)
fromstring(xml_data) ==
    LET close == Find(xml_data, Terminator)
        wellFormed ==
            /\ close >= 2
            /\ xml_data[1] = ROOT_OPEN
            /\ \A i \in 2..(close - 1) : xml_data[i] \in DOMAIN ElemOf
            /\ \A i \in (close + Len(Terminator))..Len(xml_data) :
                   xml_data[i] = CRLF
    IN  IF wellFormed
        THEN << Node("Devices-Detail-Response",
                     [i \in 1..(close - 2) |-> ElemOf[xml_data[i + 1]]]) >>
        ELSE <<>>

\* root.iter(): the element, then its descendants, in document order
RECURSIVE iter(_)
RECURSIVE IterAll(_)
iter(e) == <<e>> \o IterAll(e.kids)

IterAll(kids) ==
    IF kids = <<>> THEN <<>> ELSE iter(Head(kids)) \o IterAll(Tail(kids))

RECURSIVE Walk(_, _, _)
Walk(data, elems, i) ==
    IF i > Len(elems) THEN [err |-> "none", data |-> data]
    ELSE LET r == __device_data_handler(data, elems[i])
         IN  IF r.err # "none" THEN r ELSE Walk(r.data, elems, i + 1)

(***************************************************************************)
(* __xml_data_handler: parse, strip the namespace of every tag, walk.      *)
(* Returns [err, data]: data is the object as the handler left it.         *)
(***************************************************************************)
__xml_data_handler(data, xml_data) ==
    LET root == fromstring(xml_data)
    IN  IF root = <<>> THEN [err |-> "ParseError", data |-> data]
        ELSE LET elems == iter(root[1])
             IN  IF \E i \in 1..Len(elems) : ~elems[i].ns
                 THEN [err |-> "IndexError", data |-> data]
                 ELSE Walk(data, elems, 1)

(***************************************************************************)
(* The replies the peer may serve to GET /details.xml.                     *)
(***************************************************************************)
Head200 ==
    << "HTTP/1.1", SP, "2", "0", "0", SP, "OK", CRLF, CRLF,
       XML_DECL, PI_END, CRLF >>

Document(body) == <<ROOT_OPEN>> \o body \o Terminator \o <<CRLF>>

Reply200(body) == Head200 \o Document(body)

Reply404 ==
    << "HTTP/1.1", SP, "4", "0", "4", SP, "Not Found", CRLF, CRLF >>

BodyFull == << "<PollCount>5", "<owd_EDS0065>A1", "<owd_EDS0068>B1" >>

BodyNoSensors == << "<PollCount>7", "<FutureField>1" >>

BodyBadField == << "<owd_EDS0065>A1", "<DevicesConnected>abc" >>

BodyNonAscii == << NON_ASCII >>

\* a Family B block ahead of a Family A block
BodyFamilyBFirst == << "<owd_EDS0068>B2", "<owd_EDS0065>A1" >>

Bodies ==
    {BodyFull, BodyNoSensors, BodyBadField, BodyNonAscii, BodyFamilyBFirst}

Replies == {Reply200(b) : b \in Bodies} \cup {Reply404}

(***************************************************************************)
(* The session.                                                            *)
(*   connected        HardwareSensorBase's connected flag                  *)
(*   sock             self.sock: None or the id of a socket object         *)
(*   sockUp           self.sock holds an established TCP connection        *)
(*   opened           ids of the socket objects created and not closed     *)
(*   nsock            sockets created so far                               *)
(*   host, port       self.host, self.port                                 *)
(*   ow_data          self.ow_data: <<>> (None) or <<the ONEWIREDATA>>     *)
(*   ow_gen           parity of the number of ONEWIREDATA objects          *)
(*                    allocated: it flips when self.ow_data is bound to a  *)
(*                    new object                                           *)
(*   peer, reply, pos the peer of self.sock's connection: "idle" before a  *)
(*                    request, "reply" while it streams reply (pos tokens  *)
(*                    delivered), "closed" after it closed; reply stays    *)
(*                    until the next operation on a disconnected session   *)
(*   pc               "idle", or "loop": get_data is at its while loop     *)
(*   response         the bytes the running or last get_data/_read_reply   *)
(*                    received                                             *)
(*   xml_data         the payload the last get_data cut out of response    *)
(*   whole            the running or last get_data read the peer's reply   *)
(*                    from its first byte                                  *)
(*   op, err, ret     the last operation called, the exception it raised   *)
(*                    ("none": it returned, "running": it has not ended)   *)
(*                    and the value it returned                            *)
(*   rx               how the last recv of the operation ended             *)
(*   io               socket calls made by the operation                   *)
(*   exited           sys.exit ended the process                           *)
(*   served           sockets on which a get_data ran to its end           *)
(*   good             <<>> or <<the reading>> as the most recent get_data  *)
(*                    that ran to its end decoded it                       *)
(*   turn             parity of the passes the loop of the running         *)
(*                    get_data has made                                    *)
(*   item             the argument of the running or last get_atomic_value *)
(*                    ("" for every other operation)                       *)
(***************************************************************************)
VARIABLES connected, sock, sockUp, opened, nsock, host, port, ow_data, ow_gen,
          peer, reply, pos, pc, response, xml_data, whole, op, err, ret, rx,
          io, exited, served, good, turn, item

vars == << connected, sock, sockUp, opened, nsock, host, port, ow_data, ow_gen,
           peer, reply, pos, pc, response, xml_data, whole, op, err, ret, rx,
           io, exited, served, good, turn, item >>

\* the state as one record; adm turns FALSE when an operation is handed an
\* outcome its environment cannot produce in that state
St ==
    [connected |-> connected, sock |-> sock, sockUp |-> sockUp,
     opened |-> opened, nsock |-> nsock, host |-> host, port |-> port,
     ow_data |-> ow_data, ow_gen |-> ow_gen, peer |-> peer, reply |-> reply,
     pos |-> pos, pc |-> pc, response |-> response, xml_data |-> xml_data,
     whole |-> whole,
     op |-> op, err |-> err, ret |-> ret, rx |-> rx, io |-> io,
     exited |-> exited, served |-> served, good |-> good, turn |-> turn,
     item |-> item, adm |-> TRUE]

Becomes(s) ==
    /\ s.adm
    /\ connected' = s.connected /\ sock' = s.sock /\ sockUp' = s.sockUp
    /\ opened' = s.opened /\ nsock' = s.nsock /\ host' = s.host
    /\ port' = s.port /\ ow_data' = s.ow_data /\ ow_gen' = s.ow_gen
    /\ peer' = s.peer /\ reply' = s.reply /\ pos' = s.pos /\ pc' = s.pc
    /\ response' = s.response /\ xml_data' = s.xml_data
    /\ whole' = s.whole /\ op' = s.op
    /\ err' = s.err /\ ret' = s.ret /\ rx' = s.rx /\ io' = s.io
    /\ exited' = s.exited /\ served' = s.served /\ good' = s.good
    /\ turn' = s.turn /\ item' = s.item

NoIo == [connect |-> 0, send |-> 0, recv |-> 0, close |-> 0]

NoHost == "<None>"
DEFAULT_PORT == 80
MAX_PORT == 65535

Did(s, call) ==
    [s EXCEPT !.io[call] = IF call = "recv" THEN Min(@ + 1, MaxRecv) ELSE @ + 1]

\* an operation is called: its outcome fields start clean
Call(s, name) ==
    [s EXCEPT !.op = name, !.err = "running", !.ret = "None", !.rx = "none",
              !.io = NoIo, !.response = <<>>, !.xml_data = <<>>,
              !.whole = FALSE, !.item = "",
              !.reply = IF ~s.connected THEN <<>> ELSE @]

\* The operation ends; response is a local of it.  Every socket call of the
\* session but the loop's recv is behind is_connected, so once the flag is
\* off the peer of self.sock is out of reach and is no longer tracked.
Leaves(s) ==
    IF s.connected
    THEN [s EXCEPT !.pc = "idle", !.response = <<>>, !.turn = 0]
    ELSE [s EXCEPT !.pc = "idle", !.response = <<>>, !.turn = 0,
                   !.peer = "idle", !.pos = 0]

Raised(s, e) == Leaves([s EXCEPT !.err = e, !.ret = "None"])

Returned(s, v) == Leaves([s EXCEPT !.err = "none", !.ret = v])

Failed(s) == s.err \notin {"running", "none"}

\* the operation ends: with the exception a callee raised, or returning v
Ends(s, v) == IF Failed(s) THEN Raised(s, s.err) ELSE Returned(s, v)

(***************************************************************************)
(* HardwareSensorBase (package hardware_device_base, not in this           *)
(* repository): the connected flag and the connection parameter check.     *)
(***************************************************************************)
is_connected(s) == s.connected

_set_connected(s, b) == [s EXCEPT !.connected = b]

validate_connection_params(h, p) ==
    h \notin {NoHost, ""} /\ p >= 1 /\ p <= MAX_PORT

(***************************************************************************)
(* connect.  how: "ok", "refused" (sock.connect raises) or "nosocket"      *)
(* (socket.socket raises).  Line 137 rebinds self.sock and closes nothing: *)
(* the socket it held loses its reference, and gc says whether the runtime *)
(* finalizes (closes) it then or leaves it open.                           *)
(***************************************************************************)
connect(s, h, p, con_type, how, gc) ==
    IF validate_connection_params(h, p)
    THEN IF con_type = "tcp"
         THEN LET s1 == [s EXCEPT !.host = h, !.port = p]
                  id == s.nsock + 1
                  s2 == [Did(s1, "connect") EXCEPT
                            !.sock = id, !.nsock = id, !.sockUp = FALSE,
                            !.opened = (IF gc THEN @ \ {s.sock} ELSE @)
                                           \cup {id},
                            !.peer = "idle",
                            !.reply = <<>>, !.pos = 0,
                            !.adm = @ /\ s.nsock < MaxSockets]
              IN  IF how = "nosocket"
                  THEN [s1 EXCEPT !.err = "DeviceConnectionError"]
                  ELSE IF how = "refused"
                  THEN [s2 EXCEPT !.err = "DeviceConnectionError"]
                  ELSE _set_connected([s2 EXCEPT !.sockUp = TRUE], TRUE)
         ELSE _set_connected(s, FALSE)
    ELSE _set_connected(s, FALSE)

(***************************************************************************)
(* disconnect.  closeOk: sock.close() returns.                             *)
(***************************************************************************)
\* a disconnect that turns the flag off and leaves the socket open
disconnect_leaves_socket(s, closeOk) ==
    IF ~is_connected(s) THEN s ELSE _set_connected(s, FALSE)

disconnect(s, closeOk) ==
    IF ~is_connected(s) THEN s
    ELSE IF s.sock # None /\ ~closeOk THEN [s EXCEPT !.err = "IOError"]
    ELSE LET s1 == IF s.sock # None
                   THEN [Did(s, "close") EXCEPT
                            !.opened = @ \ {s.sock}, !.sock = None,
                            !.sockUp = FALSE]
                   ELSE s
         IN  _set_connected(s1, FALSE)

(***************************************************************************)
(* _send_command.  sendOk: sendall returns; rep: the reply the peer        *)
(* prepares when this is the first request it sees on the connection.      *)
(***************************************************************************)
\* a _send_command without the is_connected test
_send_command_unguarded(s, sendOk, rep) ==
    IF s.sock = None THEN [s EXCEPT !.err = "IOError"]
    ELSE IF ~(s.sockUp /\ sendOk) THEN [Did(s, "send") EXCEPT !.err = "IOError"]
    ELSE [Did(s, "send") EXCEPT !.ret = "True"]

_send_command(s, sendOk, rep) ==
    IF ~is_connected(s) THEN [s EXCEPT !.ret = "False"]
    ELSE IF s.sock = None THEN [s EXCEPT !.err = "IOError"]
    ELSE IF ~(s.sockUp /\ sendOk) THEN [Did(s, "send") EXCEPT !.err = "IOError"]
    ELSE LET s1 == [Did(s, "send") EXCEPT !.ret = "True"]
         IN  IF s.peer = "idle"
             THEN [s1 EXCEPT !.peer = "reply", !.reply = rep, !.pos = 0]
             ELSE s1

(***************************************************************************)
(* sock.recv.  want.kind: "timeout", "eof", "error" or "data", and then    *)
(* want.n is the number of tokens the peer delivers.  Sets rx and appends  *)
(* the bytes to response.                                                  *)
(***************************************************************************)
Outcome(kind) == [kind |-> kind, n |-> 0]

Chunk(n) == [kind |-> "data", n |-> n]

recv(s, want) ==
    LET s0 == Did(s, "recv")
        left == Len(s.reply) - s.pos
    IN  IF ~s.sockUp \/ want.kind = "error"
        THEN [s0 EXCEPT !.rx = "error", !.sockUp = FALSE]
        ELSE IF want.kind = "timeout"
        THEN [s0 EXCEPT !.rx = "timeout", !.adm = @ /\ s.peer # "closed"]
        ELSE IF want.kind = "eof"
        THEN [s0 EXCEPT !.rx = "eof", !.peer = "closed",
                        !.whole = s.pos = Len(s.response)]
        ELSE [s0 EXCEPT
                 !.rx = "data",
                 !.whole = s.pos = Len(s.response),
                 !.adm = @ /\ s.peer = "reply" /\ want.n >= 1 /\ want.n <= left,
                 !.response = @ \o SubSeq(s.reply, s.pos + 1,
                                          s.pos + Min(want.n, left)),
                 !.pos = @ + want.n,
                 !.peer = IF want.n = left THEN "closed" ELSE @]

(***************************************************************************)
(* _read_reply.                                                            *)
(***************************************************************************)
_read_reply(s, want) ==
    IF ~is_connected(s) THEN [s EXCEPT !.ret = "b''"]
    ELSE IF s.sock = None THEN [s EXCEPT !.err = "IOError"]
    ELSE LET s1 == recv(s, want)
         IN  IF s1.rx \in {"timeout", "error"} THEN [s1 EXCEPT !.err = "IOError"]
             ELSE IF ~Ascii(s1.response) THEN [s1 EXCEPT !.err = "IOError"]
             ELSE [s1 EXCEPT !.ret = IF s1.response = <<>> THEN "b''" ELSE "bytes"]

(***************************************************************************)
(* get_data, lines 241-245: the terminator is in response.                 *)
(***************************************************************************)
get_data_finish(s, closeOk) ==
    LET used == s.sock
        s1 == disconnect(s, closeOk)
        pieces == Split(s1.response, PrologEnd)
    IN  IF Failed(s1) THEN Raised(s1, s1.err)
        ELSE IF ~Ascii(s1.response) THEN Raised(s1, "UnicodeDecodeError")
        ELSE IF Len(pieces) < 2 THEN Raised(s1, "IndexError")
        ELSE LET s2 == [s1 EXCEPT !.xml_data = pieces[2]]
             IN  IF s2.ow_data = <<>> THEN Raised(s2, "AttributeError")
                 ELSE LET r == __xml_data_handler(s2.ow_data[1], s2.xml_data)
                          s3 == [s2 EXCEPT !.ow_data = <<r.data>>]
                      IN  IF r.err # "none" THEN Raised(s3, r.err)
                          ELSE Returned([s3 EXCEPT !.served = @ \cup {used},
                                                   !.good = <<r.data>>],
                                        "None")

\* lines 238-241: the loop test
get_data_while(s, closeOk) ==
    IF Contains(s.response, Terminator) THEN get_data_finish(s, closeOk)
    ELSE [s EXCEPT !.pc = "loop"]

\* lines 222-223
get_data_connect(s, how, gc) ==
    IF ~is_connected(s) THEN connect(s, s.host, s.port, "tcp", how, gc) ELSE s

\* a poll that goes on filling the reading the session already holds
get_data_reuse(s) ==
    IF s.ow_data = <<>> THEN [s EXCEPT !.ow_data = <<ONEWIREDATA>>] ELSE s

\* line 236: self.ow_data = ONEWIREDATA()
get_data_fresh(s) == [s EXCEPT !.ow_data = <<ONEWIREDATA>>, !.ow_gen = 1 - @]

(***************************************************************************)
(* get_data, lines 222-238: up to the first test of the loop.              *)
(* env: how, gc (connect), sendOk, rep, want (first recv), closeOk.        *)
(***************************************************************************)
get_data(s, env) ==
    LET s0 == Call(s, "get_data")
        s1 == get_data_connect(s0, env.how, env.gc)
        s2 == _send_command(s1, env.sendOk, env.rep)
        s3 == _read_reply(s2, env.want)
        code == __http_response_handler(StatusLine(s3.response))
    IN  IF Failed(s1) THEN Raised(s1, s1.err)
        ELSE IF Failed(s2) THEN Raised(s2, s2.err)
        ELSE IF Failed(s3) THEN Raised(s3, s3.err)
        ELSE IF code = "HttpResponseError"
        THEN [Raised(s3, "SystemExit") EXCEPT !.exited = TRUE]
        ELSE IF code # "ok" THEN Raised(s3, code)
        ELSE get_data_while(get_data_fresh(s3), env.closeOk)

\* a loop whose recv is wrapped the way _read_reply wraps its own
get_data_loop_wrapping(s, want, closeOk) ==
    IF s.sock = None THEN Raised(s, "AttributeError")
    ELSE LET s1 == recv([s EXCEPT !.turn = 1 - @], want)
         IN  IF s1.rx \in {"timeout", "error"} THEN Raised(s1, "IOError")
             ELSE get_data_while(s1, closeOk)

\* line 239, one pass of the loop body, and the test that follows it
get_data_loop(s, want, closeOk) ==
    IF s.sock = None THEN Raised(s, "AttributeError")
    ELSE LET s1 == recv([s EXCEPT !.turn = 1 - @], want)
         IN  IF s1.rx = "timeout" THEN Raised(s1, "TimeoutError")
             ELSE IF s1.rx = "error" THEN Raised(s1, "OSError")
             ELSE get_data_while(s1, closeOk)

(***************************************************************************)
(* get_atomic_value, lines 207-218.                                        *)
(***************************************************************************)
\* line 209
allowed_items == {"temperature", "humidity", "dew_point"}

\* lines 214-217: sensor[item] for each dict of read_sensors()
value_list(d, it) ==
    LET sensors == read_sensors(d)
    IN  [i \in 1..Len(sensors) |-> sensors[i][it]]

\* lines 213-218 once get_data has run up to s: an exception or sys.exit of
\* get_data ends the call, a running loop leaves it running, a return of
\* get_data is followed by the return of the list
get_atomic_value_return(s, it) ==
    LET s1 == [s EXCEPT !.op = "get_atomic_value", !.item = it]
    IN  IF s1.pc = "idle" /\ s1.err = "none"
        THEN [s1 EXCEPT !.ret = value_list(s1.ow_data[1], it)]
        ELSE s1

\* a get_atomic_value that polls whatever the item is
get_atomic_value_unchecked(s, it, env) ==
    get_atomic_value_return(get_data(s, env), it)

get_atomic_value(s, it, env) ==
    IF it \notin allowed_items
    THEN Returned([Call(s, "get_atomic_value") EXCEPT !.item = it], "None")
    ELSE get_atomic_value_return(get_data(s, env), it)

\* the loop of the get_data that get_atomic_value called
get_atomic_value_loop(s, want, closeOk) ==
    get_atomic_value_return(get_data_loop(s, want, closeOk), s.item)

(***************************************************************************)
(* The environment's choices, each drawn only where the operation reaches  *)
(* the call that consumes it.                                              *)
(***************************************************************************)
Hosts == {"", "hs1wireblue"}

Ports == {0, DEFAULT_PORT}

ConTypes == {"tcp", "udp"}

ConnectOutcomes == {"ok", "refused", "nosocket"}

Hows(h, p, t) ==
    IF validate_connection_params(h, p) /\ t = "tcp" THEN ConnectOutcomes
    ELSE {"ok"}

Gcs(s, how) == IF s.sock # None /\ how # "nosocket" THEN BOOLEAN ELSE {FALSE}

Sends(s) ==
    IF ~Failed(s) /\ is_connected(s) /\ s.sock # None /\ s.sockUp THEN BOOLEAN
    ELSE {FALSE}

Reps(s, sendOk) == IF sendOk /\ s.peer = "idle" THEN Replies ELSE {<<>>}

Wants(s) ==
    IF Failed(s) \/ s.sock = None THEN {Outcome("none")}
    ELSE IF ~s.sockUp THEN {Outcome("error")}
    ELSE {Outcome("eof"), Outcome("error")}
         \cup (IF s.peer # "closed" THEN {Outcome("timeout")} ELSE {})
         \cup (IF s.peer = "reply"
               THEN LET left == Len(s.reply) - s.pos
                    IN  {Chunk(n) : n \in 1..Min(MaxChunk, left)}
                            \cup {Chunk(left)}
               ELSE {})

Closes(s) ==
    IF ~Failed(s) /\ is_connected(s) /\ s.sock # None
           /\ Contains(s.response, Terminator)
    THEN BOOLEAN ELSE {TRUE}

(***************************************************************************)
(* The state after ONEWIRE().                                              *)
(***************************************************************************)
Init ==
    /\ connected = FALSE /\ sock = None /\ sockUp = FALSE /\ opened = {}
    /\ nsock = 0 /\ host = NoHost /\ port = DEFAULT_PORT /\ ow_data = <<>>
    /\ ow_gen = 0 /\ peer = "idle" /\ reply = <<>> /\ pos = 0
    /\ pc = "idle" /\ response = <<>> /\ xml_data = <<>> /\ whole = FALSE
    /\ op = "none"
    /\ err = "none" /\ ret = "None" /\ rx = "none" /\ io = NoIo
    /\ exited = FALSE /\ served = {} /\ good = <<>> /\ turn = 0
    /\ item = ""

Callable == pc = "idle" /\ ~exited

(***************************************************************************)
(* The operations a caller may invoke, and the loop of a running get_data. *)
(***************************************************************************)
Connect ==
    /\ Callable
    /\ \E h \in Hosts, p \in Ports, t \in ConTypes :
         \E how \in Hows(h, p, t) :
           \E gc \in (IF validate_connection_params(h, p) /\ t = "tcp"
                       THEN Gcs(St, how) ELSE {FALSE}) :
             Becomes(Ends(connect(Call(St, "connect"), h, p, t, how, gc),
                          "None"))

Disconnect ==
    /\ Callable
    /\ \E closeOk \in (IF connected /\ sock # None THEN BOOLEAN ELSE {TRUE}) :
           Becomes(Ends(disconnect(Call(St, "disconnect"), closeOk), "None"))

SendCommand ==
    /\ Callable
    /\ LET s0 == Call(St, "_send_command")
       IN  \E sendOk \in Sends(s0) : \E rep \in Reps(s0, sendOk) :
             LET s == _send_command(s0, sendOk, rep)
             IN  Becomes(Ends(s, s.ret))

ReadReply ==
    /\ Callable
    /\ LET s0 == Call(St, "_read_reply")
       IN  \E want \in (IF is_connected(s0) THEN Wants(s0)
                        ELSE {Outcome("none")}) :
             LET s == _read_reply(s0, want)
             IN  Becomes(Ends(s, s.ret))

GetData ==
    /\ Callable
    /\ LET s0 == Call(St, "get_data")
       IN  \E how \in (IF is_connected(s0) THEN {"ok"}
                       ELSE Hows(s0.host, s0.port, "tcp")) :
             \E gc \in (IF is_connected(s0)
                            \/ ~validate_connection_params(s0.host, s0.port)
                         THEN {FALSE} ELSE Gcs(s0, how)) :
             LET s1 == get_data_connect(s0, how, gc)
             IN  \E sendOk \in Sends(s1) : \E rep \in Reps(s1, sendOk) :
                   LET s2 == _send_command(s1, sendOk, rep)
                   IN  \E want \in (IF is_connected(s2) THEN Wants(s2)
                                    ELSE {Outcome("none")}) :
                         \E closeOk \in Closes(_read_reply(s2, want)) :
                           Becomes(get_data(St,
                               [how |-> how, gc |-> gc,
                                sendOk |-> sendOk, rep |-> rep,
                                want |-> want, closeOk |-> closeOk]))

GetDataLoop ==
    /\ pc = "loop" /\ ~exited
    /\ \E want \in Wants(St) :
         \E closeOk \in Closes(IF sock = None THEN St ELSE recv(St, want)) :
           Becomes(get_data_loop(St, want, closeOk))

\* a caller that uses the public operations
Next ==
    \/ Connect
    \/ Disconnect
    \/ GetData
    \/ GetDataLoop

Spec == Init /\ [][Next]_vars

\* the thread that runs get_data keeps running it
SpecFair == Spec /\ WF_vars(GetDataLoop)

(***************************************************************************)
(* A second thread calls disconnect() on the session while get_data is in  *)
(* its loop.  Between two passes: lines 163-165 run as a whole, and the    *)
(* loop's next self.sock.recv finds self.sock None.  During a pass: the    *)
(* recv that is blocked on the socket ends when the socket is closed under *)
(* it, with OSError or, the close going unnoticed, with the timeout.       *)
(***************************************************************************)
disconnect_by_other(s) ==
    LET s1 == disconnect(s, TRUE)
    IN  [s1 EXCEPT !.io = s.io, !.peer = "idle", !.pos = 0]

Cancel ==
    /\ pc = "loop" /\ ~exited /\ connected
    /\ Becomes(disconnect_by_other(St))

CancelInRecv ==
    /\ pc = "loop" /\ ~exited /\ connected /\ sock # None
    /\ \E want \in {Outcome("error")}
                    \cup (IF sockUp /\ peer # "closed"
                          THEN {Outcome("timeout")} ELSE {}) :
         Becomes(Leaves(disconnect_by_other(get_data_loop(St, want, TRUE))))

NextCancel ==
    \/ Connect
    \/ Disconnect
    \/ GetData
    \/ GetDataLoop
    \/ Cancel
    \/ CancelInRecv

SpecCancel == Init /\ [][NextCancel]_vars

(***************************************************************************)
(* A caller that reads single quantities with get_atomic_value.            *)
(***************************************************************************)
Items == allowed_items \cup {"", "pressure_mb"}

NoEnv ==
    [how |-> "ok", gc |-> FALSE, sendOk |-> FALSE, rep |-> <<>>,
     want |-> Outcome("none"), closeOk |-> TRUE]

GetAtomicValue ==
    /\ Callable
    /\ \E it \in Items :
         IF it \notin allowed_items
         THEN Becomes(get_atomic_value(St, it, NoEnv))
         ELSE
           LET s0 == Call(St, "get_data")
           IN  \E how \in (IF is_connected(s0) THEN {"ok"}
                           ELSE Hows(s0.host, s0.port, "tcp")) :
                 \E gc \in (IF is_connected(s0)
                                \/ ~validate_connection_params(s0.host,
                                                               s0.port)
                             THEN {FALSE} ELSE Gcs(s0, how)) :
                 LET s1 == get_data_connect(s0, how, gc)
                 IN  \E sendOk \in Sends(s1) : \E rep \in Reps(s1, sendOk) :
                       LET s2 == _send_command(s1, sendOk, rep)
                       IN  \E want \in (IF is_connected(s2) THEN Wants(s2)
                                        ELSE {Outcome("none")}) :
                             \E closeOk \in Closes(_read_reply(s2, want)) :
                               Becomes(get_atomic_value(St, it,
                                   [how |-> how, gc |-> gc,
                                    sendOk |-> sendOk, rep |-> rep,
                                    want |-> want, closeOk |-> closeOk]))

GetAtomicValueLoop ==
    /\ pc = "loop" /\ ~exited /\ op = "get_atomic_value"
    /\ \E want \in Wants(St) :
         \E closeOk \in Closes(IF sock = None THEN St ELSE recv(St, want)) :
           Becomes(get_atomic_value_loop(St, want, closeOk))

\* the session after ONEWIRE(), as a record
Fresh ==
    [connected |-> FALSE, sock |-> None, sockUp |-> FALSE, opened |-> {},
     nsock |-> 0, host |-> NoHost, port |-> DEFAULT_PORT, ow_data |-> <<>>,
     ow_gen |-> 0, peer |-> "idle", reply |-> <<>>, pos |-> 0, pc |-> "idle",
     response |-> <<>>, xml_data |-> <<>>, whole |-> FALSE, op |-> "none",
     err |-> "none", ret |-> "None", rx |-> "none", io |-> NoIo,
     exited |-> FALSE, served |-> {}, good |-> <<>>, turn |-> 0, item |-> "",
     adm |-> TRUE]

\* the session after ONEWIRE() and a connect to the controller that succeeded
Attached ==
    Ends(connect(Call(Fresh, "connect"), "hs1wireblue", DEFAULT_PORT, "tcp",
                 "ok", FALSE),
         "None")

Is(s) ==
    /\ connected = s.connected /\ sock = s.sock /\ sockUp = s.sockUp
    /\ opened = s.opened /\ nsock = s.nsock /\ host = s.host
    /\ port = s.port /\ ow_data = s.ow_data /\ ow_gen = s.ow_gen
    /\ peer = s.peer /\ reply = s.reply /\ pos = s.pos /\ pc = s.pc
    /\ response = s.response /\ xml_data = s.xml_data
    /\ whole = s.whole /\ op = s.op
    /\ err = s.err /\ ret = s.ret /\ rx = s.rx /\ io = s.io
    /\ exited = s.exited /\ served = s.served /\ good = s.good
    /\ turn = s.turn /\ item = s.item

\* the caller asks before it has connected, or after
InitAtomic == Is(Fresh) \/ Is(Attached)

NextAtomic ==
    \/ GetAtomicValue
    \/ GetAtomicValueLoop

SpecAtomic == InitAtomic /\ [][NextAtomic]_vars

\* a caller that drives the transport primitives itself
NextIO ==
    \/ Connect
    \/ Disconnect
    \/ SendCommand
    \/ ReadReply

SpecIO == Init /\ [][NextIO]_vars

(***************************************************************************)
(* The decoder on its own: get_data at line 245, on a session that has     *)
(* polled a peer, read a reply with any payload and disconnected.          *)
(***************************************************************************)
DocBodies == UNION {[1..n -> DOMAIN ElemOf] : n \in 0..MaxElems}

InitDecode ==
    /\ connected = FALSE /\ sock = None /\ sockUp = FALSE /\ opened = {}
    /\ nsock = 1 /\ host = "hs1wireblue" /\ port = DEFAULT_PORT
    /\ ow_data = <<ONEWIREDATA>> /\ ow_gen = 1
    /\ peer = "idle" /\ reply = <<>> /\ pos = 0
    /\ pc = "decode" /\ response = <<>> /\ whole = TRUE
    /\ xml_data \in {Document(b) : b \in DocBodies}
    /\ op = "get_data" /\ err = "running" /\ ret = "None" /\ rx = "data"
    /\ io = [connect |-> 1, send |-> 1, recv |-> 1, close |-> 1]
    /\ exited = FALSE /\ served = {} /\ good = <<>> /\ turn = 0
    /\ item = ""

\* line 245
XmlDataHandler ==
    /\ pc = "decode"
    /\ LET r == __xml_data_handler(ow_data[1], xml_data)
           s == [St EXCEPT !.ow_data = <<r.data>>]
       IN  Becomes(IF r.err # "none" THEN Raised(s, r.err)
                   ELSE Returned([s EXCEPT !.served = {1}, !.good = <<r.data>>],
                                 "None"))

NextDecode == XmlDataHandler

SpecDecode == InitDecode /\ [][NextDecode]_vars

(***************************************************************************)
(* Properties of a poll.  A step with op' = "get_data" is a step of        *)
(* get_data: the one that calls it when pc = "idle", a pass of its loop    *)
(* when pc = "loop"; the poll has ended when pc is "idle" again.           *)
(***************************************************************************)
PollEnded == op = "get_data" /\ pc = "idle"

PollFailed == PollEnded /\ err \notin {"running", "none"}

PollSucceeded == PollEnded /\ err = "none"

\* C1: when the status line of the reply carries a code other than 200, the
\* poll fails with the protocol error raised to the caller, the process is
\* not terminated, no reading is produced or stored, and no further bytes
\* are read.
C1_NonSuccessStatusFails ==
    [][(/\ pc = "idle" /\ op' = "get_data"
        /\ reply' = Reply404 /\ rx' = "data" /\ whole'
        /\ Contains(SubSeq(reply', 1, pos'), <<CRLF>>))
       => (/\ pc' = "idle" /\ err' = "HttpResponseError" /\ ~exited'
           /\ ow_data' = ow_data /\ ow_gen' = ow_gen
           /\ io'.recv = 1)]_vars

\* C2: when the peer closes the connection (a recv of zero bytes) before the
\* terminator is in the accumulated buffer, the poll ends in an error
\* instead of reading on.
C2_EofBeforeTerminatorFails ==
    (op = "get_data" /\ rx = "eof") => PollFailed

\* C3: however the reply is cut into chunks by successive reads, a poll whose
\* reads all deliver data extracts the payload it would extract had the
\* reply come in one chunk.
C3_ChunkingDoesNotMatter ==
    (/\ PollEnded /\ whole /\ rx = "data" /\ err # "IOError"
     /\ reply \in {Reply200(b) : b \in Bodies \ {BodyNonAscii}})
    => xml_data = Split(reply, PrologEnd)[2]

\* C4: when a poll fails after it connected (send failure, read failure or
\* timeout, truncated reply, non-200 status, decode failure), the
\* connection is released before the error reaches the caller: the session
\* is disconnected and the socket closed.
C4_FailedPollReleasesConnection ==
    (PollFailed /\ err # "DeviceConnectionError")
    => (~connected /\ sock = None)

\* C5: after a connect that fails with a connection error the session is
\* disconnected, whether or not it was connected before.
C5_FailedConnectLeavesDisconnected ==
    (op = "connect" /\ err = "DeviceConnectionError") => ~connected

\* C6: a poll on a disconnected session connects before any other socket
\* call, a poll on a connected session does not connect again, and a poll
\* that succeeds leaves the session disconnected with its socket closed, so
\* that every successful poll is served on a connection of its own.
C6_PollStep ==
    /\ (pc = "idle" /\ op' = "get_data" /\ ~connected /\ io'.connect = 0)
       => (io'.send = 0 /\ io'.recv = 0 /\ pc' = "idle" /\ err' # "none")
    /\ (pc = "idle" /\ op' = "get_data" /\ connected) => io'.connect = 0
    /\ (op' = "get_data" /\ pc' = "idle" /\ err' = "none")
       => (/\ Cardinality(served') = Cardinality(served) + 1
           /\ (served' \ served) \cap opened' = {})

\* C6: every step of a poll is a C6_PollStep, and a poll that has succeeded
\* has closed its socket and turned the connected flag off.
C6_OneConnectionPerPoll ==
    /\ [](PollSucceeded
          => ~connected /\ sock = None /\ ~sockUp /\ io.close = 1)
    /\ [][C6_PollStep]_vars

\* two polls have succeeded, each on a socket of its own
C6_TwoPollsTwoConnections ==
    PollSucceeded /\ Cardinality(served) = 2 /\ ~connected /\ sock = None

\* C7: whenever the session is idle after a sequence of polls, the sensor
\* sequences of the stored reading are those of the most recent document
\* that was decoded successfully.
C7_StoredReadingIsLastDecoded ==
    (pc = "idle" /\ good # <<>>)
    => (/\ ow_data # <<>>
        /\ ow_data[1].eds0065_data = good[1].eds0065_data
        /\ ow_data[1].eds0068_data = good[1].eds0068_data)

\* C8: when the payload is reached and decoding it fails, the stored reading
\* is never a partially populated one: it is what it was before the poll.
WholeReadings ==
    {<<>>} \cup {<<__xml_data_handler(ONEWIREDATA, Document(b)).data>> :
                    b \in {c \in Bodies :
                             __xml_data_handler(ONEWIREDATA,
                                                Document(c)).err = "none"}}

\* C8: after a failed decode the stored reading is a whole one, and a poll
\* that fails decoding within one step leaves ow_data as it was.
C8_FailedDecodeLeavesNoPartialReading ==
    /\ []((PollFailed /\ xml_data # <<>>) => ow_data \in WholeReadings)
    /\ [][(/\ pc = "idle" /\ op' = "get_data" /\ pc' = "idle"
           /\ err' # "none" /\ xml_data' # <<>>)
          => (ow_data' = ow_data /\ ow_gen' = ow_gen)]_vars

C11_DisconnectLeavesNoSocket ==
    (op = "disconnect" /\ err = "none") => (~connected /\ sock = None)

\* C12: a poll that decodes a document without any owd_EDS0065 and
\* owd_EDS0068 block stores a reading whose two sensor sequences are empty
\* and whose read_sensors() is empty, whatever the session held before.
C12_NoBlocksNoSensors ==
    [][(/\ op' = "get_data" /\ pc' = "idle" /\ err' = "none"
        /\ xml_data' = Document(BodyNoSensors))
       => (/\ ow_data' # <<>>
           /\ ow_data'[1].eds0065_data = <<>>
           /\ ow_data'[1].eds0068_data = <<>>
           /\ read_sensors(ow_data'[1]) = <<>>)]_vars

\* the document without blocks was decoded by the second poll that succeeded
C12_NoBlocksAfterEarlierPoll ==
    /\ PollSucceeded /\ xml_data = Document(BodyNoSensors)
    /\ Cardinality(served) = 2 /\ read_sensors(ow_data[1]) = <<>>

(***************************************************************************)
(* Properties of the decoder, read on the states of SpecDecode: xml_data   *)
(* is the payload, and once pc = "idle" err and ow_data are what           *)
(* __xml_data_handler left.                                                *)
(***************************************************************************)
Decoded == pc = "idle" /\ op = "get_data" /\ xml_data # <<>>

Root == fromstring(xml_data)[1]

Unrecognized(e) == e.tag \notin RecognizedNames

UnrecognizedLeaf(e) == Unrecognized(e) /\ e.kids = <<>> /\ e.ns

Dropped(e, leavesOnly) ==
    IF leavesOnly THEN UnrecognizedLeaf(e) ELSE Unrecognized(e)

\* the kids without the elements that are Dropped, at any depth
RECURSIVE PruneKids(_, _)
PruneKids(kids, leavesOnly) ==
    IF kids = <<>> THEN <<>>
    ELSE LET k == Head(kids)
             rest == PruneKids(Tail(kids), leavesOnly)
         IN  IF Dropped(k, leavesOnly) THEN rest
             ELSE << [k EXCEPT !.kids = PruneKids(k.kids, leavesOnly)] >>
                      \o rest

Prune(e, leavesOnly) == [e EXCEPT !.kids = PruneKids(e.kids, leavesOnly)]

\* the handler's result on a parsed tree
DecodeTree(root) ==
    LET elems == iter(root)
    IN  IF \E i \in 1..Len(elems) : ~elems[i].ns
        THEN [err |-> "IndexError", data |-> ONEWIREDATA]
        ELSE Walk(ONEWIREDATA, elems, 1)

\* C13 as claimed: decoding a document gives what decoding it without its
\* elements of unrecognized name gives, and succeeds when that does.
C13_UnrecognizedElementsIgnored ==
    Decoded
    => [err |-> err, data |-> ow_data[1]] = DecodeTree(Prune(Root, FALSE))

\* C13: decoding a document gives what decoding it without its childless,
\* namespace-qualified elements of unrecognized name gives: the same
\* reading, and success exactly when that succeeds.
C13_UnrecognizedLeavesIgnored ==
    Decoded
    => [err |-> err, data |-> ow_data[1]]
           = DecodeTree(Prune(Root, TRUE))

\* a document with an unrecognized element under the root and another in a
\* sensor block was decoded
C13_DecodedAroundUnknowns ==
    /\ Decoded /\ err = "none"
    /\ xml_data = Document(<< "<FutureField>1", "<owd_EDS0065>A3" >>)
    /\ Len(ow_data[1].eds0065_data) = 1
    /\ ow_data[1].eds0065_data[1].temperature = <<215>>

\* every tag of the document has a namespace to strip, so the walk begins
Qualified == \A i \in 1..Len(iter(Root)) : iter(Root)[i].ns

\* the walk begins with a block whose only child is a PrimaryValue
StartsWithPV ==
    /\ Decoded /\ Qualified /\ Root.kids # <<>>
    /\ \E t \in DOMAIN PVElemOf : Root.kids[1] = PVElemOf[t]

PVText == Root.kids[1].kids[1].text

PVList ==
    IF Root.kids[1].tag = "owd_EDS0065" THEN ow_data[1].eds0065_data
    ELSE ow_data[1].eds0068_data

DecodeErrors == {"ValueError", "TypeError", "AttributeError"}

\* the result C14 asks for when tok is the token to parse (<<>>: none)
PVOutcome(tok) ==
    IF tok # <<>> /\ tok[1] \in DOMAIN FloatTable
    THEN /\ Len(PVList) >= 1
         /\ PVList[1].relative_humidity = <<FloatTable[tok[1]]>>
    ELSE err \in DecodeErrors /\ PVList = <<>>

\* str.split(): the words between runs of white space
Tokens(text) == SelectSeq(text, LAMBDA w : w # "")

C15_DecodeDependsOnPayloadOnly ==
    [][(op' = "get_data" /\ pc' = "idle" /\ err' = "none")
       => (/\ __xml_data_handler(ONEWIREDATA, xml_data').err = "none"
           /\ ow_data' = <<__xml_data_handler(ONEWIREDATA, xml_data').data>>)]_vars

\* a session that had a reading stored polled again and decoded the
\* document with both families
C15_DecodedAfterHistory ==
    /\ PollSucceeded /\ served = {1, 2}
    /\ xml_data = Document(BodyFull)
    /\ Len(read_sensors(ow_data[1])) = 2 /\ ow_data[1].poll_count = <<5>>

\* C16: every poll terminates: a get_data that is in its accumulation loop
\* leaves it, by returning or by raising, whatever the peer does.
C16_PollTerminates == (pc = "loop") ~> (pc = "idle")

\* C17: of the sockets the session has created, none but the one self.sock
\* refers to is open.
C17_OnlyTheHeldSocketIsOpen == opened \subseteq {sock}

\* C20: in every reachable state the connected flag is true exactly when
\* the session holds a socket (self.sock is not None).
C20_ConnectedIffSocketHeld == connected <=> sock # None

\* the containers of one family in the order the walk meets them
Containers(tag) == SelectSeq(iter(Root), LAMBDA e : e.tag = tag)

\* one record per container, each filled from the container's own children
RecordsOf(tag, blank, tags) ==
    [i \in 1..Len(Containers(tag)) |->
        SensorLoop(blank, tags, Containers(tag)[i].kids, 1).rec]

IsPrefix(a, b) == Len(a) <= Len(b) /\ a = SubSeq(b, 1, Len(a))

\* C19: after a decode each family's sequence lists one record per
\* container of the family, in the order the containers appear in the
\* document, wherever in the tree they are; a decode that fails has
\* appended the records of the containers before the failure, in that order.
C19_OneRecordPerContainerInOrder ==
    Decoded
    => LET a == RecordsOf("owd_EDS0065", EDS0065DATA, EDS0065Tags)
           b == RecordsOf("owd_EDS0068", EDS0068DATA, EDS0068Tags)
       IN  /\ IsPrefix(ow_data[1].eds0065_data, a)
           /\ IsPrefix(ow_data[1].eds0068_data, b)
           /\ err = "none" => /\ ow_data[1].eds0065_data = a
                              /\ ow_data[1].eds0068_data = b

\* two blocks of one family were decoded, in the order of the document
C19_TwoBlocksInDocumentOrder ==
    /\ Decoded /\ err = "none"
    /\ xml_data = Document(<< "<owd_EDS0065>A3", "<owd_EDS0065>A1" >>)
    /\ Len(ow_data[1].eds0065_data) = 2
    /\ ow_data[1].eds0065_data[1].rom_id = << <<"A3">> >>
    /\ ow_data[1].eds0065_data[2].rom_id = << <<"A1">> >>

\* C18: a poll whose session another caller disconnected while it was in
\* its loop ends with IOError (OSError) or TimeoutError and no other error.
C18_CancelledPollFailsWithIoError ==
    [][(pc = "loop" /\ ~connected /\ pc' = "idle")
       => err' \in {"IOError", "OSError", "TimeoutError"}]_vars

\* the values of one quantity over a list of sensor records
ValuesOf(records, it) == [i \in 1..Len(records) |-> records[i][it]]

\* C21: get_atomic_value with an item outside {temperature, humidity,
\* dew_point} returns None and makes no socket call, and leaves the connected
\* flag, the socket and the stored reading as they were; with an allowed item
\* a call that returns has sent one request over at most one new connection,
\* the stored reading is the one decoded from the payload of that poll, and
\* the list returned holds the item's value for each Family A record of that
\* reading, in order, followed by the value for each Family B record.
C21_AtomicValue ==
    [][/\ (pc = "idle" /\ op' = "get_atomic_value"
              /\ item' \notin allowed_items)
          => /\ err' = "none" /\ ret' = "None" /\ pc' = "idle"
             /\ io' = NoIo
             /\ connected' = connected /\ sock' = sock /\ sockUp' = sockUp
             /\ opened' = opened /\ nsock' = nsock
             /\ ow_data' = ow_data /\ ow_gen' = ow_gen
       /\ (op' = "get_atomic_value" /\ item' \in allowed_items
              /\ pc' = "idle")
          => /\ io'.send <= 1 /\ io'.connect <= 1
             /\ err' = "none"
                => /\ io'.send = 1
                   /\ xml_data' # <<>>
                   /\ ow_data' = << __xml_data_handler(ONEWIREDATA,
                                                       xml_data').data >>
                   /\ ret' = ValuesOf(ow_data'[1]["eds0065_data"], item')
                               \o ValuesOf(ow_data'[1]["eds0068_data"], item')
      ]_vars

\* a temperature was asked for and the reply listed a Family B block ahead
\* of a Family A block: the call returned Family A's value first
C21_FamilyAFirst ==
    /\ op = "get_atomic_value" /\ item = "temperature"
    /\ pc = "idle" /\ err = "none"
    /\ Len(ow_data[1]["eds0065_data"]) = 1
    /\ Len(ow_data[1]["eds0068_data"]) = 1
    /\ Len(ret) = 2 /\ ret[1] # ret[2]
    /\ ret[1] = ow_data[1]["eds0065_data"][1]["temperature"]
    /\ Root.kids[1].tag = "owd_EDS0068"

=============================================================================
